---- MODULE Spec2Model ----
(***************************************************************************)
(* A model of gexorank: base36 rank values with arbitrary-precision        *)
(* midpoint arithmetic, the three-bucket rank, Parse/String, GenBetween,   *)
(* Rebalance and the InsertBetween retry loop.                             *)
(*                                                                         *)
(* A Go string is modelled as a sequence of one-character strings (its     *)
(* bytes).  A *big.Int is modelled as the sequence of its base36 digits,   *)
(* most significant first, without leading zeros (zero is the empty        *)
(* sequence): math/big has no width, and neither has this representation.  *)
(***************************************************************************)
EXTENDS Integers, Sequences, FiniteSets, TLC

\* ------------------------------------------------------------------------
\* internal/alphabet
\* ------------------------------------------------------------------------

Size == 36

chars ==
  << "0", "1", "2", "3", "4", "5", "6", "7", "8", "9",
     "a", "b", "c", "d", "e", "f", "g", "h", "i", "j",
     "k", "l", "m", "n", "o", "p", "q", "r", "s", "t",
     "u", "v", "w", "x", "y", "z" >>

\* The bytes the model's strings are made of: the alphabet, the separator,
\* and bytes outside the alphabet.
Bytes ==
  { chars[i] : i \in 1..Size } \cup { "|", "A", "Z", " ", "!", "-" }

\* charToVal as init() fills it: -1 everywhere, then i at chars[i].
charToVal ==
  [ c \in Bytes |->
      IF \E i \in 1..Size : chars[i] = c
      THEN (CHOOSE i \in 1..Size : chars[i] = c) - 1
      ELSE -1 ]

AlphaMin == chars[1]

AlphaMax == chars[Size]

AlphaMid == chars[(Size \div 2) + 1]

ToChar(val) == chars[val + 1]

ToVal(c) == charToVal[c]

IsValid(c) == charToVal[c] >= 0

\* Validate: "ok", or the position (0-based) of the first invalid byte.
Validate(s) ==
  IF \A i \in 1..Len(s) : IsValid(s[i])
  THEN [ok |-> TRUE, pos |-> -1]
  ELSE [ok |-> FALSE,
        pos |-> (CHOOSE i \in 1..Len(s) :
                   /\ ~IsValid(s[i])
                   /\ \A j \in 1..(i - 1) : IsValid(s[j])) - 1]

\* ------------------------------------------------------------------------
\* Go strings: byte values and the built-in comparison
\* ------------------------------------------------------------------------

\* The byte value (ASCII) of each byte of the model.
ByteOf ==
  [ c \in Bytes |->
      IF charToVal[c] >= 0
      THEN (IF charToVal[c] < 10 THEN 48 + charToVal[c] ELSE 97 + (charToVal[c] - 10))
      ELSE CASE c = "|" -> 124
             [] c = "A" -> 65
             [] c = "Z" -> 90
             [] c = " " -> 32
             [] c = "!" -> 33
             [] c = "-" -> 45 ]

\* Go's string comparison (bytewise, a proper prefix sorts first): -1, 0, 1.
StrCmp(a, b) ==
  LET n    == IF Len(a) < Len(b) THEN Len(a) ELSE Len(b)
      diff == {i \in 1..n : a[i] # b[i]}
  IN  IF diff = {}
      THEN (IF Len(a) < Len(b) THEN -1 ELSE IF Len(a) > Len(b) THEN 1 ELSE 0)
      ELSE LET i == CHOOSE k \in diff : \A j \in diff : k <= j
           IN  IF ByteOf[a[i]] < ByteOf[b[i]] THEN -1 ELSE 1

\* strings.Repeat(string(c), n)
Repeat(c, n) == [i \in 1..n |-> c]

\* ------------------------------------------------------------------------
\* math/big on base36 digit sequences
\* ------------------------------------------------------------------------

BigZero == << >>

\* Drop leading zero digits.
Strip(d) ==
  LET nz == {i \in 1..Len(d) : d[i] # 0}
  IN  IF nz = {} THEN << >>
      ELSE SubSeq(d, CHOOSE k \in nz : \A j \in nz : k <= j, Len(d))

\* Left-pad a digit sequence with zeros to n digits.
PadDigits(d, n) == [i \in 1..(n - Len(d)) |-> 0] \o d

BigFromInt(k) ==
  LET RECURSIVE Go(_, _)
      Go(m, acc) == IF m = 0 THEN acc ELSE Go(m \div Size, <<m % Size>> \o acc)
  IN  Go(k, << >>)

\* big.Int.Sign for the non-negative values the model holds.
BigSign(a) == IF Len(a) = 0 THEN 0 ELSE 1

\* big.Int.Cmp
BigCmp(a, b) ==
  IF Len(a) < Len(b) THEN -1
  ELSE IF Len(a) > Len(b) THEN 1
  ELSE LET diff == {i \in 1..Len(a) : a[i] # b[i]}
       IN  IF diff = {} THEN 0
           ELSE LET i == CHOOSE k \in diff : \A j \in diff : k <= j
                IN  IF a[i] < b[i] THEN -1 ELSE 1

RECURSIVE AddRange(_, _, _, _, _)
\* Digits lo..hi of x + y with a carry coming in from the right: the digits
\* and the carry going out to the left.  The range is halved, so the depth of
\* the recursion is logarithmic in the number of digits.
AddRange(x, y, lo, hi, cin) ==
  IF lo = hi
  THEN LET s == x[lo] + y[lo] + cin
       IN  [d |-> <<s % Size>>, c |-> s \div Size]
  ELSE LET m == (lo + hi) \div 2
           r == AddRange(x, y, m + 1, hi, cin)
       IN  \* The carry out of the right half is 0 or 1; testing it evaluates
           \* the right half before the left one, as the carry travels.
           IF r.c = 0
           THEN LET l == AddRange(x, y, lo, m, 0) IN [d |-> l.d \o r.d, c |-> l.c]
           ELSE LET l == AddRange(x, y, lo, m, 1) IN [d |-> l.d \o r.d, c |-> l.c]

\* big.Int.Add
BigAdd(a, b) ==
  LET n == IF Len(a) > Len(b) THEN Len(a) ELSE Len(b)
  IN  IF n = 0 THEN BigZero
      ELSE LET r == AddRange(PadDigits(a, n), PadDigits(b, n), 1, n, 0)
           IN  Strip(<<r.c>> \o r.d)

RECURSIVE SubRange(_, _, _, _, _)
\* Digits lo..hi of x - y with a borrow coming in from the right.
SubRange(x, y, lo, hi, bin) ==
  IF lo = hi
  THEN LET s == x[lo] - y[lo] - bin
       IN  IF s < 0 THEN [d |-> <<s + Size>>, c |-> 1] ELSE [d |-> <<s>>, c |-> 0]
  ELSE LET m == (lo + hi) \div 2
           r == SubRange(x, y, m + 1, hi, bin)
       IN  IF r.c = 0
           THEN LET l == SubRange(x, y, lo, m, 0) IN [d |-> l.d \o r.d, c |-> l.c]
           ELSE LET l == SubRange(x, y, lo, m, 1) IN [d |-> l.d \o r.d, c |-> l.c]

\* big.Int.Sub for a >= b.
BigSub(a, b) ==
  IF Len(a) = 0 THEN BigZero
  ELSE Strip(SubRange(a, PadDigits(b, Len(a)), 1, Len(a), 0).d)

RECURSIVE MulRange(_, _, _, _, _)
\* Digits lo..hi of x * k with a carry coming in from the right.
MulRange(x, k, lo, hi, cin) ==
  IF lo = hi
  THEN LET s == x[lo] * k + cin
       IN  [d |-> <<s % Size>>, c |-> s \div Size]
  ELSE LET m == (lo + hi) \div 2
           r == MulRange(x, k, m + 1, hi, cin)
           l == MulRange(x, k, lo, m, r.c)
       IN  \* The carry is below k + 1; the test evaluates the right half first.
           IF r.c <= k THEN [d |-> l.d \o r.d, c |-> l.c] ELSE [d |-> << >>, c |-> 0]

\* a * k for a small non-negative machine integer k.
BigMulSmall(a, k) ==
  IF Len(a) = 0 THEN BigZero
  ELSE LET r == MulRange(a, k, 1, Len(a), 0)
       IN  Strip(BigFromInt(r.c) \o r.d)

\* big.Int.Mul
BigMul(a, b) ==
  LET RECURSIVE Go(_, _)
      Go(i, acc) ==
        IF i > Len(b) THEN acc
        ELSE Go(i + 1, BigAdd(Strip(acc \o <<0>>), BigMulSmall(a, b[i])))
  IN  Go(1, BigZero)

RECURSIVE DivRange(_, _, _, _, _)
\* Digits lo..hi of x div k with a remainder coming in from the left.
DivRange(x, k, lo, hi, rin) ==
  IF lo = hi
  THEN LET cur == rin * Size + x[lo]
       IN  [d |-> <<cur \div k>>, c |-> cur % k]
  ELSE LET m == (lo + hi) \div 2
           l == DivRange(x, k, lo, m, rin)
           r == DivRange(x, k, m + 1, hi, l.c)
       IN  \* The remainder is below k; the test evaluates the left half first.
           IF l.c < k THEN [d |-> l.d \o r.d, c |-> r.c] ELSE [d |-> << >>, c |-> 0]

\* a div k for a small positive machine integer k.
BigDivSmall(a, k) ==
  IF Len(a) = 0 THEN BigZero ELSE Strip(DivRange(a, k, 1, Len(a), 0).d)

\* Schoolbook long division, one quotient digit per digit of a.
BigDivLong(a, b) ==
  LET RECURSIVE Go(_, _, _)
      Go(i, rem, acc) ==
        IF i > Len(a) THEN acc
        ELSE LET cur == Strip(rem \o <<a[i]>>)
                 q   == CHOOSE k \in 0..(Size - 1) :
                          /\ BigCmp(BigMulSmall(b, k), cur) <= 0
                          /\ BigCmp(BigMulSmall(b, k + 1), cur) > 0
             IN  Go(i + 1, BigSub(cur, BigMulSmall(b, q)), acc \o <<q>>)
  IN  Strip(Go(1, BigZero, << >>))

\* big.Int.Div for b > 0 (the operands are never negative).
BigDiv(a, b) ==
  IF Len(b) = 1 THEN BigDivSmall(a, b[1]) ELSE BigDivLong(a, b)

\* ------------------------------------------------------------------------
\* RankValue
\* ------------------------------------------------------------------------

DefaultLength == 6

MaxLength == 128

ErrRankExhausted == "Exhausted"

ErrEqualValues == "EqualValues"

ErrInvalidValue == "InvalidValue"

NoErr == "nil"

\* The zero RankValue{} (an empty string).
ZeroValue == << >>

newRankValue(s) == s

\* ParseRankValue without the test for the empty string.
ParseRankValue_NoEmptyCheck(s) ==
  IF ~Validate(s).ok THEN [value |-> ZeroValue, err |-> ErrInvalidValue]
  ELSE [value |-> s, err |-> NoErr]

ParseRankValue(s) ==
  IF Len(s) = 0 THEN [value |-> ZeroValue, err |-> ErrInvalidValue]
  ELSE IF ~Validate(s).ok THEN [value |-> ZeroValue, err |-> ErrInvalidValue]
  ELSE [value |-> s, err |-> NoErr]

MinValue(length) == Repeat(AlphaMin, length)

MaxValue(length) == Repeat(AlphaMax, length)

MidValue(length) == Repeat(AlphaMid, length)

\* normalize: right-pad the shorter value with '0'.
\* normalize without the padding.
normalize_NoPad(r, other) == << r, other >>

\* normalize padding the shorter value on the left.
normalize_LeftPad(r, other) ==
  LET n == IF Len(r) > Len(other) THEN Len(r) ELSE Len(other)
  IN  << Repeat(AlphaMin, n - Len(r)) \o r, Repeat(AlphaMin, n - Len(other)) \o other >>

normalize(r, other) ==
  LET n == IF Len(r) > Len(other) THEN Len(r) ELSE Len(other)
  IN  << r \o Repeat(AlphaMin, n - Len(r)), other \o Repeat(AlphaMin, n - Len(other)) >>

\* RankValue.CompareTo
ValueCompareTo(r, other) ==
  LET ab == normalize(r, other)
  IN  StrCmp(ab[1], ab[2])

strToBigInt(s) == Strip([i \in 1..Len(s) |-> ToVal(s[i])])

bigIntToStr(n, minLen) ==
  IF BigSign(n) = 0 THEN Repeat(AlphaMin, minLen)
  ELSE LET buf == [i \in 1..Len(n) |-> ToChar(n[i])]
       IN  IF Len(buf) < minLen
           THEN Repeat(AlphaMin, minLen - Len(buf)) \o buf
           ELSE buf

\* midpointStr without the padding to the operands' length.
midpointStr_NoPad(lo, hi) ==
  LET sum == BigAdd(strToBigInt(lo), strToBigInt(hi))
  IN  bigIntToStr(BigDiv(sum, BigFromInt(2)), 0)

midpointStr(lo, hi) ==
  LET a   == strToBigInt(lo)
      b   == strToBigInt(hi)
      sum == BigAdd(a, b)
      mid == BigDiv(sum, BigFromInt(2))
  IN  bigIntToStr(mid, Len(lo))

\* trimTrailingZeros leaving the string as it is.
trimTrailingZeros_None(s, minLen) == s

\* trimTrailingZeros: end stops at minLen or at the last byte that is not '0'.
trimTrailingZeros(s, minLen) ==
  LET keep == {i \in (minLen + 1)..Len(s) : s[i] # AlphaMin}
      end  == IF keep = {}
              THEN (IF Len(s) < minLen THEN Len(s) ELSE minLen)
              ELSE CHOOSE k \in keep : \A j \in keep : j <= k
  IN  SubSeq(s, 1, end)

\* RankValue.Between
\* RankValue.Between without the test of the length before it extends.
ValueBetween_NoLimit(r, other) ==
  IF ValueCompareTo(r, other) = 0
  THEN [value |-> ZeroValue, err |-> ErrEqualValues]
  ELSE LET swap   == ValueCompareTo(r, other) > 0
           lower  == IF swap THEN other ELSE r
           upper  == IF swap THEN r ELSE other
           lohi   == normalize(lower, upper)
           mid    == midpointStr(lohi[1], lohi[2])
           minLen == IF Len(lower) < Len(upper) THEN Len(lower) ELSE Len(upper)
       IN  IF mid = lohi[1]
           THEN [value |-> trimTrailingZeros(
                             midpointStr(lohi[1] \o <<AlphaMin>>, lohi[2] \o <<AlphaMin>>),
                             minLen),
                 err |-> NoErr]
           ELSE [value |-> trimTrailingZeros(mid, minLen), err |-> NoErr]

\* RankValue.Between refusing to extend to MaxLength symbols.
ValueBetween_Strict(r, other) ==
  IF ValueCompareTo(r, other) = 0
  THEN [value |-> ZeroValue, err |-> ErrEqualValues]
  ELSE LET swap   == ValueCompareTo(r, other) > 0
           lower  == IF swap THEN other ELSE r
           upper  == IF swap THEN r ELSE other
           lohi   == normalize(lower, upper)
           mid    == midpointStr(lohi[1], lohi[2])
           minLen == IF Len(lower) < Len(upper) THEN Len(lower) ELSE Len(upper)
       IN  IF mid = lohi[1]
           THEN IF Len(lohi[1]) + 1 >= MaxLength
                THEN [value |-> ZeroValue, err |-> ErrRankExhausted]
                ELSE [value |-> trimTrailingZeros(
                                  midpointStr(lohi[1] \o <<AlphaMin>>, lohi[2] \o <<AlphaMin>>),
                                  minLen),
                      err |-> NoErr]
           ELSE [value |-> trimTrailingZeros(mid, minLen), err |-> NoErr]

ValueBetween(r, other) ==
  IF ValueCompareTo(r, other) = 0
  THEN [value |-> ZeroValue, err |-> ErrEqualValues]
  ELSE LET swap   == ValueCompareTo(r, other) > 0
           lower  == IF swap THEN other ELSE r
           upper  == IF swap THEN r ELSE other
           lohi   == normalize(lower, upper)
           lo     == lohi[1]
           hi     == lohi[2]
           mid    == midpointStr(lo, hi)
           minLen == IF Len(lower) < Len(upper) THEN Len(lower) ELSE Len(upper)
       IN  IF mid = lo
           THEN IF Len(lo) + 1 > MaxLength
                THEN [value |-> ZeroValue, err |-> ErrRankExhausted]
                ELSE [value |-> trimTrailingZeros(
                                  midpointStr(lo \o <<AlphaMin>>, hi \o <<AlphaMin>>),
                                  minLen),
                      err |-> NoErr]
           ELSE [value |-> trimTrailingZeros(mid, minLen), err |-> NoErr]

Increment(r) ==
  LET n == BigAdd(strToBigInt(r), BigFromInt(1))
  IN  bigIntToStr(n, Len(r))

\* n.Sub(n, 1) is negative only for n = 0, and is then set to 0.
Decrement(r) ==
  LET n == strToBigInt(r)
      m == IF BigSign(n) = 0 THEN BigZero ELSE BigSub(n, BigFromInt(1))
  IN  bigIntToStr(m, Len(r))

\* ------------------------------------------------------------------------
\* Bucket
\* ------------------------------------------------------------------------

Bucket0 == 0

Bucket1 == 1

Bucket2 == 2

bucketCount == 3

Buckets == {Bucket0, Bucket1, Bucket2}

ErrInvalidBucket == "InvalidBucket"

BucketNext(b) == (b + 1) % bucketCount

\* Prev without the wrap-around: b - 1.
BucketPrev_NoWrap(b) == b - 1

BucketPrev(b) == (b + bucketCount - 1) % bucketCount

\* fmt.Sprintf("%d", b) for a one-digit b.
BucketString(b) == << chars[b + 1] >>

\* ParseBucket with the wrong bucket for "2".
ParseBucket_Slip(s) ==
  CASE s = << "0" >> -> [bucket |-> 0, err |-> NoErr]
    [] s = << "1" >> -> [bucket |-> 1, err |-> NoErr]
    [] s = << "2" >> -> [bucket |-> 1, err |-> NoErr]
    [] OTHER         -> [bucket |-> 0, err |-> "InvalidBucket"]

ParseBucket(s) ==
  CASE s = << "0" >> -> [bucket |-> Bucket0, err |-> NoErr]
    [] s = << "1" >> -> [bucket |-> Bucket1, err |-> NoErr]
    [] s = << "2" >> -> [bucket |-> Bucket2, err |-> NoErr]
    [] OTHER         -> [bucket |-> 0, err |-> ErrInvalidBucket]

\* ------------------------------------------------------------------------
\* LexoRank
\* ------------------------------------------------------------------------

separator == "|"

ErrInvalidFormat == "InvalidFormat"

ErrCrossBucket == "CrossBucket"

\* The zero LexoRank{}.
ZeroRank == [bucket |-> 0, value |-> ZeroValue]

\* A nil *LexoRank.
Nil == [bucket |-> -1, value |-> ZeroValue]

\* strings.SplitN(s, separator, 2)
\* strings.SplitN(s, separator, 3): a second separator gives a third part.
SplitN3(s) ==
  LET seps == {i \in 1..Len(s) : s[i] = separator}
  IN  IF seps = {} THEN << s >>
      ELSE LET i == CHOOSE k \in seps : \A j \in seps : k <= j
               rest == seps \ {i}
           IN  IF rest = {}
               THEN << SubSeq(s, 1, i - 1), SubSeq(s, i + 1, Len(s)) >>
               ELSE LET j == CHOOSE k \in rest : \A m \in rest : k <= m
                    IN  << SubSeq(s, 1, i - 1), SubSeq(s, i + 1, j - 1),
                           SubSeq(s, j + 1, Len(s)) >>

SplitN2(s) ==
  LET seps == {i \in 1..Len(s) : s[i] = separator}
  IN  IF seps = {} THEN << s >>
      ELSE LET i == CHOOSE k \in seps : \A j \in seps : k <= j
           IN  << SubSeq(s, 1, i - 1), SubSeq(s, i + 1, Len(s)) >>

Parse(s) ==
  LET parts == SplitN2(s)
  IN  IF Len(parts) # 2 THEN [rank |-> ZeroRank, err |-> ErrInvalidFormat]
      ELSE LET b == ParseBucket(parts[1])
           IN  IF b.err # NoErr THEN [rank |-> ZeroRank, err |-> b.err]
               ELSE LET v == ParseRankValue(parts[2])
                    IN  IF v.err # NoErr THEN [rank |-> ZeroRank, err |-> v.err]
                        ELSE [rank |-> [bucket |-> b.bucket, value |-> v.value],
                              err  |-> NoErr]

Initial == [bucket |-> Bucket0, value |-> MidValue(DefaultLength)]

Min == [bucket |-> Bucket0, value |-> MinValue(DefaultLength)]

Max == [bucket |-> Bucket0, value |-> MaxValue(DefaultLength)]

\* Between without the test of the buckets.
Between_NoBucketCheck(a, b) ==
  LET mid == ValueBetween(a.value, b.value)
  IN  IF mid.err # NoErr THEN [rank |-> ZeroRank, err |-> mid.err]
      ELSE [rank |-> [bucket |-> a.bucket, value |-> mid.value], err |-> NoErr]

Between(a, b) ==
  IF a.bucket # b.bucket THEN [rank |-> ZeroRank, err |-> ErrCrossBucket]
  ELSE LET mid == ValueBetween(a.value, b.value)
       IN  IF mid.err # NoErr THEN [rank |-> ZeroRank, err |-> mid.err]
           ELSE [rank |-> [bucket |-> a.bucket, value |-> mid.value], err |-> NoErr]

GenNext(r) ==
  LET v == r.value \o << AlphaMid >>
  IN  IF Len(v) > MaxLength
      THEN [bucket |-> r.bucket, value |-> Increment(r.value)]
      ELSE [bucket |-> r.bucket, value |-> newRankValue(v)]

\* GenPrev without the floor test.
GenPrev_NoFloor(r) ==
  LET dec == Decrement(r.value)
      v   == dec \o << AlphaMid >>
  IN  IF Len(v) > MaxLength
      THEN [bucket |-> r.bucket, value |-> dec]
      ELSE [bucket |-> r.bucket, value |-> newRankValue(v)]

GenPrev(r) ==
  LET minVal == MinValue(Len(r.value))
  IN  IF ValueCompareTo(r.value, minVal) = 0 THEN r
      ELSE LET dec == Decrement(r.value)
               v   == dec \o << AlphaMid >>
           IN  IF Len(v) > MaxLength
               THEN [bucket |-> r.bucket, value |-> dec]
               ELSE [bucket |-> r.bucket, value |-> newRankValue(v)]

GenBetween(prev, next) ==
  CASE prev = Nil /\ next = Nil -> [rank |-> Initial, err |-> NoErr]
    [] prev = Nil /\ next # Nil -> [rank |-> GenPrev(next), err |-> NoErr]
    [] prev # Nil /\ next = Nil -> [rank |-> GenNext(prev), err |-> NoErr]
    [] OTHER                    -> Between(prev, next)

\* LexoRank.String
String(r) == BucketString(r.bucket) \o << separator >> \o r.value

\* LexoRank.CompareTo
CompareTo(r, other) ==
  IF r.bucket < other.bucket THEN -1
  ELSE IF r.bucket > other.bucket THEN 1
  ELSE ValueCompareTo(r.value, other.value)

\* InNextBucket that also resets the value to the default one.
InNextBucket_Reset(r) == [bucket |-> BucketNext(r.bucket), value |-> MidValue(DefaultLength)]

InNextBucket(r) == [bucket |-> BucketNext(r.bucket), value |-> r.value]

InPrevBucket(r) == [bucket |-> BucketPrev(r.bucket), value |-> r.value]

\* Rebalance, the boundaries and the step for n input ranks (n a big
\* integer: len(ranks) is a 64-bit int, wider than the model checker's).
RebalanceStep(n) ==
  LET min     == strToBigInt(Repeat(AlphaMin, DefaultLength))
      max     == strToBigInt(Repeat(AlphaMax, DefaultLength))
      space   == BigSub(max, min)
      divisor == BigAdd(n, BigFromInt(1))
      step    == BigDiv(space, divisor)
  IN  IF BigSign(step) = 0
      THEN LET length == DefaultLength + 2
               min2   == strToBigInt(Repeat(AlphaMin, length))
               max2   == strToBigInt(Repeat(AlphaMax, length))
               space2 == BigSub(max2, min2)
           IN  [min |-> min2, step |-> BigDiv(space2, divisor)]
      ELSE [min |-> min, step |-> step]

\* Rebalance, the body of the loop: result[i] for 0 <= i < n.
RebalanceAt(n, i, bucket) ==
  LET p      == RebalanceStep(n)
      offset == BigMul(p.step, BigAdd(i, BigFromInt(1)))
      val    == BigAdd(p.min, offset)
      str    == bigIntToStr(val, DefaultLength)
  IN  [bucket |-> bucket, value |-> newRankValue(str)]

\* Rebalance putting each output in the bucket of the input rank it replaces.
Rebalance_InputBucket(ranks, bucket) ==
  LET n == Len(ranks)
  IN  IF n = 0 THEN << >>
      ELSE [i \in 1..n |->
              RebalanceAt(BigFromInt(n), BigFromInt(i - 1), ranks[i].bucket)]

\* Rebalance(ranks, bucket); nil is the empty sequence.
Rebalance(ranks, bucket) ==
  LET n == Len(ranks)
  IN  IF n = 0 THEN << >>
      ELSE [i \in 1..n |-> RebalanceAt(BigFromInt(n), BigFromInt(i - 1), bucket)]

\* ------------------------------------------------------------------------
\* State
\* ------------------------------------------------------------------------

VARIABLES
  wire,      \* the string handed to Parse
  parsed,    \* what Parse(wire) returned
  text,      \* String() of the parsed rank
  reparsed,  \* what Parse(text) returned
  ra,        \* the receiver / first argument (prev) of a rank operation, or Nil
  rb,        \* the second argument (next) of a rank operation, or Nil
  op,        \* the rank operation called last
  res,       \* what it returned
  hist,      \* the earlier receivers of a chain of GenNext or GenPrev calls
  rbIn,      \* Rebalance's input slice: its length, and its elements if held
  rbBucket,  \* Rebalance's target bucket
  rbCalled,  \* whether Rebalance has returned
  rbFrom,    \* the index of the first element of rbOut in the returned slice
  rbOut,     \* the returned slice, or the part of it the model holds
  maxRetries, \* InsertBetween's argument
  failFirst, \* the insert callback fails on its first failFirst calls
  pc,        \* where the InsertBetween run is
  retries,   \* the local maxRetries, after the coercion
  attempt,   \* iterations of the loop completed
  reads,     \* what the neighbors callback returned, call by call
  writes,    \* the rank each insert call was given, and what it returned
  cand,      \* the rank computed in this iteration
  lastErr,   \* the local lastErr
  ret,       \* what InsertBetween returned
  store,     \* the rows of the shared store: their ranks, in insertion order
  unique,    \* whether the store has a UNIQUE constraint on the rank column
  run,       \* the InsertBetween runs over the shared store
  ticks,     \* the steps each of these runs has taken
  bkHist,    \* a bucket and what the Next and Prev calls made of it
  bkOps,     \* the calls made on it
  mvHist,    \* two ranks and what the InNextBucket / InPrevBucket calls made of them
  mvOps,     \* the calls made on them
  cmpArgs,   \* three ranks
  cmpRes,    \* what CompareTo returned on them, pair by pair
  cvA,       \* the lower rank, replaced by each result
  cvB,       \* the upper rank
  cvPrev,    \* the lower rank before the last call
  cvErr,     \* the error of the last call
  cvFrom,    \* the length of the values the loop started from
  cvSteps,   \* the calls of Between made so far
  ivArg,     \* the value Increment or Decrement is called on
  ivOp,      \* which of the two was called
  ivRes,     \* what it returned
  rpIn,      \* two input slices of one length, as handed to Rebalance
  rpBucket,  \* the target bucket of both calls
  rpOut,     \* what the two calls returned
  rpLeft     \* the two input slices after the calls

parseVars == << wire, parsed, text, reparsed >>

rankVars == << ra, rb, op, res, hist >>

rebalanceVars == << rbIn, rbBucket, rbCalled, rbFrom, rbOut >>

insertVars ==
  << maxRetries, failFirst, pc, retries, attempt, reads, writes, cand, lastErr, ret >>

sharedVars == << store, unique, run, ticks >>

bucketVars == << bkHist, bkOps, mvHist, mvOps >>

compareVars == << cmpArgs, cmpRes >>

convergeVars == << cvA, cvB, cvPrev, cvErr, cvFrom, cvSteps >>

valueVars == << ivArg, ivOp, ivRes >>

pairVars == << rpIn, rpBucket, rpOut, rpLeft >>

\* The variables each group of operations leaves alone.
notParse == << rankVars, rebalanceVars, insertVars, sharedVars, bucketVars, compareVars, convergeVars, valueVars, pairVars >>

notRank == << parseVars, rebalanceVars, insertVars, sharedVars, bucketVars, compareVars, convergeVars, valueVars, pairVars >>

notRebalance == << parseVars, rankVars, insertVars, sharedVars, bucketVars, compareVars, convergeVars, valueVars, pairVars >>

notInsert == << parseVars, rankVars, rebalanceVars, sharedVars, bucketVars, compareVars, convergeVars, valueVars, pairVars >>

notShared == << parseVars, rankVars, rebalanceVars, insertVars, bucketVars, compareVars, convergeVars, valueVars, pairVars >>

notBucket == << parseVars, rankVars, rebalanceVars, insertVars, sharedVars, compareVars, convergeVars, valueVars, pairVars >>

notCompare == << parseVars, rankVars, rebalanceVars, insertVars, sharedVars, bucketVars, convergeVars, valueVars, pairVars >>

notConverge == << parseVars, rankVars, rebalanceVars, insertVars, sharedVars, bucketVars, compareVars, valueVars, pairVars >>

notValue == << parseVars, rankVars, rebalanceVars, insertVars, sharedVars, bucketVars, compareVars, convergeVars, pairVars >>

notPair == << parseVars, rankVars, rebalanceVars, insertVars, sharedVars, bucketVars, compareVars, convergeVars, valueVars >>

vars ==
  << wire, parsed, text, reparsed, ra, rb, op, res, hist,
     rbIn, rbBucket, rbCalled, rbFrom, rbOut,
     maxRetries, failFirst, pc, retries, attempt, reads, writes, cand, lastErr, ret,
     store, unique, run, ticks,
     bkHist, bkOps, mvHist, mvOps,
     cmpArgs, cmpRes,
     cvA, cvB, cvPrev, cvErr, cvFrom, cvSteps,
     ivArg, ivOp, ivRes,
     rpIn, rpBucket, rpOut, rpLeft >>

\* ------------------------------------------------------------------------
\* Parse and String
\* ------------------------------------------------------------------------

MaxWireLen == 4

\* Bytes of the input strings: bucket digits, a digit that is no bucket,
\* letters, the separator, an uppercase letter and a space.
WireChars == { "0", "1", "2", "3", "a", "z", "|", "A", " " }

WireStrings == UNION { [1..n -> WireChars] : n \in 0..MaxWireLen }

NotCalled == [rank |-> ZeroRank, err |-> "none"]

NoText == << >>

ParseInit ==
  /\ wire \in WireStrings
  /\ parsed = NotCalled
  /\ text = NoText
  /\ reparsed = NotCalled

ParseIdle ==
  /\ wire = << >>
  /\ parsed = NotCalled
  /\ text = NoText
  /\ reparsed = NotCalled

RankIdle ==
  /\ ra = Nil
  /\ rb = Nil
  /\ op = "none"
  /\ res = NotCalled
  /\ hist = << >>

RebalanceIdle ==
  /\ rbIn = [len |-> BigZero, held |-> TRUE, elems |-> << >>]
  /\ rbBucket = Bucket0
  /\ rbCalled = FALSE
  /\ rbFrom = BigZero
  /\ rbOut = << >>

NoReturn == [rank |-> ZeroRank, err |-> [kind |-> "none", cause |-> NoErr]]

InsertIdle ==
  /\ maxRetries = 0
  /\ failFirst = 0
  /\ pc = "idle"
  /\ retries = 0
  /\ attempt = 0
  /\ reads = << >>
  /\ writes = << >>
  /\ cand = ZeroRank
  /\ lastErr = NoErr
  /\ ret = NoReturn

SharedIdle ==
  /\ store = << >>
  /\ unique = TRUE
  /\ run = << >>
  /\ ticks = << >>

BucketIdle ==
  /\ bkHist = << >>
  /\ bkOps = << >>
  /\ mvHist = << >>
  /\ mvOps = << >>

CompareIdle ==
  /\ cmpArgs = << >>
  /\ cmpRes = << >>

ConvergeIdle ==
  /\ cvA = Nil
  /\ cvB = Nil
  /\ cvPrev = Nil
  /\ cvErr = "none"
  /\ cvFrom = 0
  /\ cvSteps = 0

ValueIdle ==
  /\ ivArg = ZeroValue
  /\ ivOp = "none"
  /\ ivRes = ZeroValue

PairIdle ==
  /\ rpIn = << >>
  /\ rpBucket = Bucket0
  /\ rpOut = << >>
  /\ rpLeft = << >>

CallParse ==
  /\ parsed = NotCalled
  /\ parsed' = Parse(wire)
  /\ UNCHANGED << wire, text, reparsed >>
  /\ UNCHANGED notParse

CallString ==
  /\ parsed.err = NoErr
  /\ text = NoText
  /\ text' = String(parsed.rank)
  /\ UNCHANGED << wire, parsed, reparsed >>
  /\ UNCHANGED notParse

CallReparse ==
  /\ text # NoText
  /\ reparsed = NotCalled
  /\ reparsed' = Parse(text)
  /\ UNCHANGED << wire, parsed, text >>
  /\ UNCHANGED notParse

ParseNext == CallParse \/ CallString \/ CallReparse

InitParse == RankIdle /\ RebalanceIdle /\ InsertIdle /\ SharedIdle /\ BucketIdle /\ CompareIdle /\ ConvergeIdle /\ ValueIdle /\ PairIdle /\ ParseInit

SpecParse == InitParse /\ [][ParseNext]_vars

\* Number of separators in a string.
SepCount(s) == Cardinality({i \in 1..Len(s) : s[i] = "|"})

\* C2: for every string Parse accepts, String() of the parsed rank is that
\* string exactly, and parsing the output again succeeds with a rank that
\* compares equal to the first.
C2_RoundTrip ==
  /\ text # NoText => text = wire
  /\ reparsed # NotCalled =>
       /\ reparsed.err = NoErr
       /\ CompareTo(reparsed.rank, parsed.rank) = 0

C2_Witness ==
  /\ reparsed # NotCalled
  /\ parsed.rank.bucket = Bucket2
  /\ Len(parsed.rank.value) = MaxWireLen - 2

\* The wire format of the claim: one bucket digit, one separator, one or
\* more symbols in 0-9 or a-z.
WellFormed(s) ==
  /\ Len(s) >= 3
  /\ s[1] \in { "0", "1", "2" }
  /\ s[2] = "|"
  /\ \A i \in 3..Len(s) :
       s[i] \in { "0", "1", "2", "3", "4", "5", "6", "7", "8", "9",
                  "a", "b", "c", "d", "e", "f", "g", "h", "i", "j", "k", "l", "m",
                  "n", "o", "p", "q", "r", "s", "t", "u", "v", "w", "x", "y", "z" }

\* C3: Parse succeeds if and only if the string is one bucket digit 0, 1 or
\* 2, one separator, and one or more symbols in 0-9a-z; every other string
\* yields an error.
C3_ParseAccepts ==
  parsed # NotCalled => (parsed.err = NoErr <=> WellFormed(wire))

C3_Witness ==
  /\ parsed # NotCalled
  /\ parsed.err # NoErr
  /\ SepCount(wire) = 2
  /\ wire[1] = "0"
  /\ wire[2] = "|"

MaxShort == 2

MaxChain == 2

\* Symbols of the argument values: the minimum, its successor and the
\* maximum.
ValueChars == { "0", "1", "z" }

ShortValues == UNION { [1..n -> ValueChars] : n \in 1..MaxShort }

\* Values at the length limit: one below it, at it, and one above it (Parse
\* does not bound the length), filled with the minimum or the maximum.
LongValues ==
  { Repeat(f, n - 1) \o << c >> :
      f \in { AlphaMin, AlphaMax }, c \in ValueChars,
      n \in { MaxLength - 1, MaxLength, MaxLength + 1 } }

RankArgs == [bucket : Buckets, value : ShortValues \cup LongValues]

RankInit ==
  /\ ra \in RankArgs \cup { Nil }
  /\ rb = Nil
  /\ op = "none"
  /\ res = NotCalled
  /\ hist = << >>

CallBetween ==
  /\ op = "none"
  /\ hist = << >>
  /\ ra # Nil
  /\ \E b \in RankArgs :
       /\ rb' = b
       /\ res' = Between(ra, b)
  /\ op' = "Between"
  /\ UNCHANGED << ra, hist >>
  /\ UNCHANGED notRank

CallGenBetween ==
  /\ op = "none"
  /\ hist = << >>
  /\ \E b \in RankArgs \cup { Nil } :
       /\ rb' = b
       /\ res' = GenBetween(ra, b)
  /\ op' = "GenBetween"
  /\ UNCHANGED << ra, hist >>
  /\ UNCHANGED notRank

CallGenNext ==
  /\ op = "none"
  /\ ra # Nil
  /\ res' = [rank |-> GenNext(ra), err |-> NoErr]
  /\ op' = "GenNext"
  /\ UNCHANGED << ra, rb, hist >>
  /\ UNCHANGED notRank

CallGenPrev ==
  /\ op = "none"
  /\ ra # Nil
  /\ res' = [rank |-> GenPrev(ra), err |-> NoErr]
  /\ op' = "GenPrev"
  /\ UNCHANGED << ra, rb, hist >>
  /\ UNCHANGED notRank

\* The caller keeps the rank it was given and calls again on it, as in
\* prev = prev.GenNext().
Continue ==
  /\ op \in { "GenNext", "GenPrev" }
  /\ Len(hist) < MaxChain
  /\ ra' = res.rank
  /\ hist' = Append(hist, [op |-> op, rank |-> ra])
  /\ op' = "none"
  /\ res' = NotCalled
  /\ UNCHANGED rb
  /\ UNCHANGED notRank

RankNext ==
  \/ CallBetween
  \/ CallGenBetween
  \/ CallGenNext
  \/ CallGenPrev
  \/ Continue

InitRank == ParseIdle /\ RebalanceIdle /\ InsertIdle /\ SharedIdle /\ BucketIdle /\ CompareIdle /\ ConvergeIdle /\ ValueIdle /\ PairIdle /\ RankInit

SpecRank == InitRank /\ [][RankNext]_vars

AllMin(v) == \A i \in 1..Len(v) : v[i] = "0"

AllMax(v) == \A i \in 1..Len(v) : v[i] = "z"

\* C1: for ranks a, b of one bucket with unequal values, in either order
\* and of any lengths, a successful Between(a, b) is in that bucket and lies
\* strictly between the smaller and the larger of the two under CompareTo.
C1_Betweenness ==
  (/\ op = "Between"
   /\ ra.bucket = rb.bucket
   /\ CompareTo(ra, rb) # 0
   /\ res.err = NoErr) =>
     LET lo == IF CompareTo(ra, rb) < 0 THEN ra ELSE rb
         hi == IF CompareTo(ra, rb) < 0 THEN rb ELSE ra
     IN  /\ res.rank.bucket = ra.bucket
         /\ CompareTo(lo, res.rank) < 0
         /\ CompareTo(res.rank, hi) < 0

\* Between(a, b) with a the larger, of different lengths, adjacent at their
\* common length, so that the result is one symbol longer.
C1_Witness ==
  /\ op = "Between"
  /\ res.err = NoErr
  /\ CompareTo(ra, rb) > 0
  /\ Len(ra.value) # Len(rb.value)
  /\ Len(res.rank.value) = MaxLength

\* C5: for every rank r with a value of 1..MaxLength symbols, GenNext(r) is
\* in r's bucket and compares strictly greater than r, so that every rank
\* of a chain of GenNext calls is greater than all the ranks before it.
C5_GenNextAscends ==
  (op = "GenNext" /\ Len(ra.value) >= 1 /\ Len(ra.value) <= MaxLength) =>
     /\ res.rank.bucket = ra.bucket
     /\ CompareTo(res.rank, ra) > 0
     /\ \A i \in 1..Len(hist) :
          (\A j \in i..Len(hist) : hist[j].op = "GenNext") =>
             CompareTo(res.rank, hist[i].rank) > 0

\* C6: GenPrev(r) is in r's bucket; it is r itself when r's value is made
\* of minimum symbols only, and compares strictly less than r otherwise.
C6_GenPrevFloor ==
  op = "GenPrev" =>
     /\ res.err = NoErr
     /\ res.rank.bucket = ra.bucket
     /\ AllMin(ra.value) => res.rank = ra
     /\ ~AllMin(ra.value) => CompareTo(res.rank, ra) < 0

\* GenPrev reaches the floor: the receiver is not all-minimum, the result is.
C6_Witness ==
  /\ op = "GenPrev"
  /\ Len(hist) = 1
  /\ hist[1].op = "GenPrev"
  /\ ~AllMin(hist[1].rank.value)
  /\ AllMin(ra.value)
  /\ Len(ra.value) = MaxLength
  /\ res.rank = ra

\* C7: GenBetween(prev, next) is Initial() ("0|iiiiii") when both are
\* absent, a rank strictly before next when only next is present, a rank
\* strictly after prev when only prev is present, and what Between(prev,
\* next) returns when both are present; the first three cases return no
\* error.  The case of an all-minimum next, where GenPrev documents that it
\* returns next itself, is granted here.
C7_GenBetweenCases ==
  op = "GenBetween" =>
     /\ (ra = Nil /\ rb = Nil) =>
          /\ res.err = NoErr
          /\ res.rank = Initial
          /\ String(res.rank) = << "0", "|", "i", "i", "i", "i", "i", "i" >>
     /\ (ra = Nil /\ rb # Nil) =>
          /\ res.err = NoErr
          /\ ~AllMin(rb.value) => CompareTo(res.rank, rb) < 0
     /\ (ra # Nil /\ rb = Nil) =>
          /\ res.err = NoErr
          /\ CompareTo(res.rank, ra) > 0
     /\ (ra # Nil /\ rb # Nil) => res = Between(ra, rb)

\* ------------------------------------------------------------------------
\* Rebalance
\* ------------------------------------------------------------------------

MaxRanks == 3

\* The ranks the small input slices are made of.
RankPool ==
  { [bucket |-> Bucket0, value |-> << "0" >>],
    Initial,
    GenNext(Initial),
    [bucket |-> Bucket1, value |-> << "a", "b" >>] }

\* The input slices the model holds in full: sorted ascending.
SortedInputs ==
  { s \in UNION { [1..n -> RankPool] : n \in 0..MaxRanks } :
      \A i \in 1..Len(s) : \A j \in i..Len(s) : CompareTo(s[i], s[j]) <= 0 }

\* 36^DefaultLength, the number of values of DefaultLength symbols.
SpaceSize == << 1 >> \o [i \in 1..DefaultLength |-> 0]

\* 36^(DefaultLength + 2), the number of values of the longer length.
WideSize == << 1 >> \o [i \in 1..(DefaultLength + 2) |-> 0]

\* Lengths of the input slices the model does not hold: around the length
\* from which the step at DefaultLength is zero (step = 0 iff n + 1 >=
\* 36^DefaultLength), and around the one from which the step at
\* DefaultLength + 2 is zero as well.
LargeCounts ==
  { BigSub(SpaceSize, BigFromInt(2)),
    BigSub(SpaceSize, BigFromInt(1)),
    SpaceSize,
    BigAdd(SpaceSize, BigFromInt(MaxRanks)),
    BigSub(WideSize, BigFromInt(2)),
    BigSub(WideSize, BigFromInt(1)) }

\* The indices at which the model looks into the slice returned for n
\* ranks: its first elements, its last ones, and those around the last
\* element whose integer still has DefaultLength digits.
WindowStarts(n) ==
  LET step == RebalanceStep(n).step
      q    == IF BigSign(step) = 0 THEN BigFromInt(3)
              ELSE BigDiv(strToBigInt(Repeat(AlphaMax, DefaultLength)), step)
  IN  { i \in { BigZero, BigFromInt(1),
                BigSub(q, BigFromInt(3)), BigSub(q, BigFromInt(2)),
                BigSub(q, BigFromInt(1)), q,
                BigSub(n, BigFromInt(2)) } :
          BigCmp(BigAdd(i, BigFromInt(2)), n) <= 0 }

RebalanceInit ==
  /\ \/ \E s \in SortedInputs :
          rbIn = [len |-> BigFromInt(Len(s)), held |-> TRUE, elems |-> s]
     \/ \E n \in LargeCounts :
          rbIn = [len |-> n, held |-> FALSE, elems |-> << >>]
  /\ rbBucket \in Buckets
  /\ rbCalled = FALSE
  /\ rbFrom = BigZero
  /\ rbOut = << >>

\* Rebalance on a slice the model holds: the whole result.
CallRebalance ==
  /\ ~rbCalled
  /\ rbIn.held
  /\ rbOut' = Rebalance(rbIn.elems, rbBucket)
  /\ rbFrom' = BigZero
  /\ rbCalled' = TRUE
  /\ UNCHANGED << rbIn, rbBucket >>
  /\ UNCHANGED notRebalance

\* Rebalance on a slice too long to hold: two neighbouring elements of the
\* result.
CallRebalanceLong ==
  /\ ~rbCalled
  /\ ~rbIn.held
  /\ \E i \in WindowStarts(rbIn.len) :
       /\ rbFrom' = i
       /\ rbOut' = << RebalanceAt(rbIn.len, i, rbBucket),
                      RebalanceAt(rbIn.len, BigAdd(i, BigFromInt(1)), rbBucket) >>
  /\ rbCalled' = TRUE
  /\ UNCHANGED << rbIn, rbBucket >>
  /\ UNCHANGED notRebalance

RebalanceNext == CallRebalance \/ CallRebalanceLong

InitRebalance == ParseIdle /\ RankIdle /\ InsertIdle /\ SharedIdle /\ BucketIdle /\ CompareIdle /\ ConvergeIdle /\ ValueIdle /\ PairIdle /\ RebalanceInit

SpecRebalance == InitRebalance /\ [][RebalanceNext]_vars

\* C8: for n input ranks sorted ascending and a target bucket B, Rebalance
\* returns n ranks (none for n = 0), all in B, each strictly greater under
\* CompareTo than the one before it; also for n so large that the step at
\* DefaultLength is zero.
C8_RebalanceAscending ==
  rbCalled =>
     /\ rbIn.held => Len(rbOut) = Len(rbIn.elems)
     /\ \A i \in 1..Len(rbOut) : rbOut[i].bucket = rbBucket
     /\ \A i \in 1..(Len(rbOut) - 1) : CompareTo(rbOut[i], rbOut[i + 1]) < 0

\* ------------------------------------------------------------------------
\* InsertBetween
\* ------------------------------------------------------------------------

ErrMaxRetriesExceeded == "MaxRetriesExceeded"

MaxRetryArg == 3

\* Errors the insert callback returns.
WriteErrs == { "conflict-1", "conflict-2" }

\* Errors of the insert callback that are no unique-constraint conflict.
OtherWriteErrs == { "connection-lost" }

\* Errors the neighbors callback returns.
ReadErrs == { "db-down" }

\* Two adjacent values of MaxLength symbols: Between is exhausted on them.
LastLow == [bucket |-> Bucket0, value |-> Repeat(AlphaMin, MaxLength)]

LastHigh == [bucket |-> Bucket0, value |-> Repeat(AlphaMin, MaxLength - 1) \o << "1" >>]

\* What the neighbors callback may return: an empty list, an append, a
\* prepend, a gap, and neighbors GenBetween fails on (equal, in two buckets,
\* exhausted); or an error.
NeighborReplies ==
  { [prev |-> Nil, next |-> Nil, err |-> NoErr],
    [prev |-> Initial, next |-> Nil, err |-> NoErr],
    [prev |-> Nil, next |-> Initial, err |-> NoErr],
    [prev |-> Initial, next |-> GenNext(Initial), err |-> NoErr],
    [prev |-> Initial, next |-> Initial, err |-> NoErr],
    [prev |-> Initial, next |-> InNextBucket(Initial), err |-> NoErr],
    [prev |-> LastLow, next |-> LastHigh, err |-> NoErr] }
  \cup { [prev |-> Nil, next |-> Nil, err |-> e] : e \in ReadErrs }

InsertInit ==
  /\ maxRetries \in (-1)..MaxRetryArg
  /\ failFirst \in 0..(MaxRetryArg + 1)
  /\ pc = "call"
  /\ retries = 0
  /\ attempt = 0
  /\ reads = << >>
  /\ writes = << >>
  /\ cand = ZeroRank
  /\ lastErr = NoErr
  /\ ret = NoReturn

\* No coercion of maxRetries.
coerce_None(m) == m

\* if maxRetries < 1 { maxRetries = 1 }
coerce(m) == IF m < 1 THEN 1 ELSE m

\* Entry: the coercion of maxRetries and var lastErr error.
Enter ==
  /\ pc = "call"
  /\ retries' = coerce(maxRetries)
  /\ lastErr' = NoErr
  /\ attempt' = 0
  /\ pc' = "loop"
  /\ UNCHANGED << maxRetries, failFirst, reads, writes, cand, ret >>
  /\ UNCHANGED notInsert

\* The iteration with a failure of neighbors() or of GenBetween recorded and
\* retried like a failure of insert.
ReadNeighbors_Retry ==
  /\ pc = "loop"
  /\ attempt < retries
  /\ \E reply \in NeighborReplies :
       /\ reads' = Append(reads, reply)
       /\ LET g == GenBetween(reply.prev, reply.next)
              e == IF reply.err # NoErr THEN reply.err ELSE g.err
          IN  IF e # NoErr
              THEN /\ lastErr' = e
                   /\ attempt' = attempt + 1
                   /\ pc' = "loop"
                   /\ cand' = cand
              ELSE /\ cand' = g.rank
                   /\ pc' = "write"
                   /\ UNCHANGED << lastErr, attempt >>
  /\ UNCHANGED << maxRetries, failFirst, retries, writes, ret >>
  /\ UNCHANGED notInsert

\* The iteration with neighbors() called in the first iteration only and
\* its reply used again in the later ones.
ReadNeighbors_Once ==
  /\ pc = "loop"
  /\ attempt < retries
  /\ \E reply \in (IF reads = << >> THEN NeighborReplies ELSE { reads[1] }) :
       /\ reads' = IF reads = << >> THEN Append(reads, reply) ELSE reads
       /\ IF reply.err # NoErr
          THEN /\ ret' = [rank |-> ZeroRank,
                          err  |-> [kind |-> "neighbors", cause |-> reply.err]]
               /\ pc' = "done"
               /\ cand' = cand
          ELSE LET g == GenBetween(reply.prev, reply.next)
               IN  IF g.err # NoErr
                   THEN /\ ret' = [rank |-> ZeroRank,
                                   err  |-> [kind |-> "gen rank", cause |-> g.err]]
                        /\ pc' = "done"
                        /\ cand' = cand
                   ELSE /\ cand' = g.rank
                        /\ pc' = "write"
                        /\ ret' = ret
  /\ UNCHANGED << maxRetries, failFirst, retries, attempt, writes, lastErr >>
  /\ UNCHANGED notInsert

\* One iteration up to the insert call: neighbors(), then GenBetween.
ReadNeighbors ==
  /\ pc = "loop"
  /\ attempt < retries
  /\ \E reply \in NeighborReplies :
       /\ reads' = Append(reads, reply)
       /\ IF reply.err # NoErr
          THEN /\ ret' = [rank |-> ZeroRank,
                          err  |-> [kind |-> "neighbors", cause |-> reply.err]]
               /\ pc' = "done"
               /\ cand' = cand
          ELSE LET g == GenBetween(reply.prev, reply.next)
               IN  IF g.err # NoErr
                   THEN /\ ret' = [rank |-> ZeroRank,
                                   err  |-> [kind |-> "gen rank", cause |-> g.err]]
                        /\ pc' = "done"
                        /\ cand' = cand
                   ELSE /\ cand' = g.rank
                        /\ pc' = "write"
                        /\ ret' = ret
  /\ UNCHANGED << maxRetries, failFirst, retries, attempt, writes, lastErr >>
  /\ UNCHANGED notInsert

\* The insert callback of this specification: it fails on its first
\* failFirst calls, with any of its errors, and succeeds on the next.
InsertStub(call) ==
  IF call <= failFirst THEN WriteErrs \cup OtherWriteErrs ELSE { NoErr }

\* The insert call with a failure returned at once instead of retried.
WriteAttempt_NoRetry ==
  /\ pc = "write"
  /\ \E e \in InsertStub(Len(writes) + 1) :
       /\ writes' = Append(writes, [rank |-> cand, err |-> e])
       /\ IF e # NoErr
          THEN ret' = [rank |-> ZeroRank, err |-> [kind |-> "insert", cause |-> e]]
          ELSE ret' = [rank |-> cand, err |-> [kind |-> NoErr, cause |-> NoErr]]
  /\ pc' = "done"
  /\ UNCHANGED << maxRetries, failFirst, retries, reads, cand, lastErr, attempt >>
  /\ UNCHANGED notInsert

\* if err := insert(rank); err != nil { lastErr = err; continue }; return rank, nil
WriteAttempt ==
  /\ pc = "write"
  /\ \E e \in InsertStub(Len(writes) + 1) :
       /\ writes' = Append(writes, [rank |-> cand, err |-> e])
       /\ IF e # NoErr
          THEN /\ lastErr' = e
               /\ attempt' = attempt + 1
               /\ pc' = "loop"
               /\ ret' = ret
          ELSE /\ ret' = [rank |-> cand, err |-> [kind |-> NoErr, cause |-> NoErr]]
               /\ pc' = "done"
               /\ UNCHANGED << lastErr, attempt >>
  /\ UNCHANGED << maxRetries, failFirst, retries, reads, cand >>
  /\ UNCHANGED notInsert

\* The loop has run maxRetries times:
\* return LexoRank{}, fmt.Errorf("%w: last error: %v", ErrMaxRetriesExceeded, lastErr)
GiveUp ==
  /\ pc = "loop"
  /\ attempt >= retries
  /\ ret' = [rank |-> ZeroRank,
             err  |-> [kind |-> ErrMaxRetriesExceeded, cause |-> lastErr]]
  /\ pc' = "done"
  /\ UNCHANGED << maxRetries, failFirst, retries, attempt, reads, writes, cand, lastErr >>
  /\ UNCHANGED notInsert

InsertNext == Enter \/ ReadNeighbors \/ WriteAttempt \/ GiveUp

InitInsert == ParseIdle /\ RankIdle /\ RebalanceIdle /\ SharedIdle /\ BucketIdle /\ CompareIdle /\ ConvergeIdle /\ ValueIdle /\ PairIdle /\ InsertInit

SpecInsert == InitInsert /\ [][InsertNext]_vars

AtLeastOne(m) == IF m > 1 THEN m ELSE 1

ReadsOk == \A i \in 1..Len(reads) : reads[i].err = NoErr

GenOk ==
  \A i \in 1..Len(reads) :
    reads[i].err = NoErr => GenBetween(reads[i].prev, reads[i].next).err = NoErr

ReadFailure(i) ==
  IF reads[i].err # NoErr THEN [kind |-> "neighbors", cause |-> reads[i].err]
  ELSE LET g == GenBetween(reads[i].prev, reads[i].next)
       IN  IF g.err # NoErr THEN [kind |-> "gen rank", cause |-> g.err]
           ELSE [kind |-> NoErr, cause |-> NoErr]

\* C11: an error of the neighbor read, or a failure of GenBetween on the
\* neighbors read (Exhausted, EqualValues, CrossBucket), ends the run on the
\* attempt it occurs in: insert is not called in that attempt, no neighbor
\* read and no insert call follows, and the error returned wraps the cause
\* and is not MaxRetriesExceeded.
C11_FatalReadOrGen ==
  \A i \in 1..Len(reads) :
    ReadFailure(i).kind # NoErr =>
       /\ i = Len(reads)
       /\ Len(writes) = i - 1
       /\ pc = "done"
       /\ ret.rank = ZeroRank
       /\ ret.err = ReadFailure(i)
       /\ ret.err.kind # ErrMaxRetriesExceeded

\* GenBetween is exhausted on the second attempt, after a failed insert.
C11_Witness ==
  /\ pc = "done"
  /\ Len(reads) = 2
  /\ Len(writes) = 1
  /\ maxRetries = MaxRetryArg
  /\ ret.err = [kind |-> "gen rank", cause |-> ErrRankExhausted]

\* C12: an error of the insert callback that is no unique-constraint
\* conflict stops the retry loop: no neighbor read and no insert call
\* follows it.
C12_OtherErrorFatal ==
  \A i \in 1..Len(writes) :
    writes[i].err \in OtherWriteErrs =>
       /\ Len(writes) = i
       /\ Len(reads) = i

\* ------------------------------------------------------------------------
\* InsertBetween runs over one shared store
\* ------------------------------------------------------------------------

NumRuns == 2

SharedRetries == 2

Runs == 1..NumRuns

\* The error of a store with a UNIQUE constraint on the rank column.
ErrDuplicate == "conflict-1"

\* The stores the runs start on: no two rows of one rank.
InitialStores ==
  { << >>,
    << Initial >>,
    << Initial, GenNext(Initial) >> }

\* Where a run inserts: after the row of rank after (at the front when
\* there is none).  A neighbors callback either reads the row that follows
\* it in the store as it is now, or, as the README's example does, reads the
\* two rows it was given the ids of.  A run that appends (tail) reads the
\* last row of the store in the order of the rank strings instead.
Positions(st) ==
  { [after |-> a, next0 |-> n, byId |-> f, tail |-> FALSE] :
      a \in { Nil } \cup { st[i] : i \in 1..Len(st) },
      n \in { Nil } \cup { st[i] : i \in 1..Len(st) },
      f \in BOOLEAN }

\* The row that follows rank r in store st (the first row, for no rank), or
\* none.
Successor(st, r) ==
  LET above == { st[i] : i \in { j \in 1..Len(st) : r = Nil \/ CompareTo(st[j], r) > 0 } }
  IN  IF above = { } THEN Nil
      ELSE CHOOSE x \in above : \A y \in above : CompareTo(x, y) <= 0

\* The first row of the store: the oldest one.
Greatest_Oldest(st) == IF st = << >> THEN Nil ELSE st[1]

\* ORDER BY rank DESC, first row: the row whose rank string is the greatest,
\* or none in an empty store.
Greatest(st) ==
  IF st = << >> THEN Nil
  ELSE LET rows == { st[i] : i \in 1..Len(st) }
       IN  CHOOSE x \in rows : \A y \in rows : StrCmp(String(y), String(x)) <= 0

\* The neighbors callback over the store.
Neighbors(st, pos) ==
  IF pos.tail
  THEN [prev |-> Greatest(st), next |-> Nil, err |-> NoErr]
  ELSE [prev |-> pos.after,
        next |-> IF pos.byId THEN pos.next0 ELSE Successor(st, pos.after),
        err  |-> NoErr]

\* A store that rejects a rank it holds whether it has the constraint or not.
StoreInsert_Always(st, uniq, rank) ==
  IF \E i \in 1..Len(st) : String(st[i]) = String(rank)
  THEN [store |-> st, err |-> ErrDuplicate]
  ELSE [store |-> Append(st, rank), err |-> NoErr]

\* The insert callback over the store: with the UNIQUE constraint a rank
\* string the store holds is rejected, without it every row is added.
StoreInsert(st, uniq, rank) ==
  IF uniq /\ \E i \in 1..Len(st) : String(st[i]) = String(rank)
  THEN [store |-> st, err |-> ErrDuplicate]
  ELSE [store |-> Append(st, rank), err |-> NoErr]

SharedInit ==
  /\ store \in InitialStores
  /\ unique \in BOOLEAN
  /\ ticks = [p \in Runs |-> 0]
  /\ run \in [Runs ->
       { [pc |-> "loop", retries |-> coerce(m), attempt |-> 0, pos |-> p,
          reads |-> << >>, writes |-> << >>, cand |-> ZeroRank,
          lastErr |-> NoErr, ret |-> NoReturn] :
           m \in { 0, SharedRetries },
           p \in { q \in Positions(store) :
                     q.next0 = Successor(store, q.after) } }]

\* The iteration of run p with the candidate of a later attempt taken after
\* the candidate that was rejected instead of from the neighbors.
SharedRead_Bump(p) ==
  /\ run[p].pc = "loop"
  /\ run[p].attempt < run[p].retries
  /\ LET reply == Neighbors(store, run[p].pos)
         seen  == [prev |-> reply.prev, next |-> reply.next, err |-> reply.err,
                   rows |-> Len(store)]
         g     == IF run[p].attempt = 0
                  THEN GenBetween(reply.prev, reply.next)
                  ELSE [rank |-> GenNext(run[p].cand), err |-> NoErr]
     IN  IF g.err # NoErr
         THEN run' = [run EXCEPT ![p].reads = Append(@, seen),
                                 ![p].ret = [rank |-> ZeroRank,
                                             err |-> [kind |-> "gen rank", cause |-> g.err]],
                                 ![p].pc = "done"]
         ELSE run' = [run EXCEPT ![p].reads = Append(@, seen),
                                 ![p].cand = g.rank,
                                 ![p].pc = "write"]
  /\ ticks' = [ticks EXCEPT ![p] = @ + 1]
  /\ UNCHANGED << store, unique >>
  /\ UNCHANGED notShared

\* One iteration of run p up to the insert call: neighbors(), GenBetween.
SharedRead(p) ==
  /\ run[p].pc = "loop"
  /\ run[p].attempt < run[p].retries
  /\ LET reply == Neighbors(store, run[p].pos)
         seen  == [prev |-> reply.prev, next |-> reply.next, err |-> reply.err,
                   rows |-> Len(store)]
         g     == GenBetween(reply.prev, reply.next)
     IN  IF reply.err # NoErr
         THEN run' = [run EXCEPT ![p].reads = Append(@, seen),
                                 ![p].ret = [rank |-> ZeroRank,
                                             err |-> [kind |-> "neighbors", cause |-> reply.err]],
                                 ![p].pc = "done"]
         ELSE IF g.err # NoErr
         THEN run' = [run EXCEPT ![p].reads = Append(@, seen),
                                 ![p].ret = [rank |-> ZeroRank,
                                             err |-> [kind |-> "gen rank", cause |-> g.err]],
                                 ![p].pc = "done"]
         ELSE run' = [run EXCEPT ![p].reads = Append(@, seen),
                                 ![p].cand = g.rank,
                                 ![p].pc = "write"]
  /\ ticks' = [ticks EXCEPT ![p] = @ + 1]
  /\ UNCHANGED << store, unique >>
  /\ UNCHANGED notShared

\* The insert call of run p with its error ignored.
SharedWrite_IgnoreError(p) ==
  /\ run[p].pc = "write"
  /\ LET w == StoreInsert(store, unique, run[p].cand)
     IN  /\ store' = w.store
         /\ run' = [run EXCEPT ![p].writes = Append(@, [rank |-> run[p].cand, err |-> w.err]),
                               ![p].ret = [rank |-> run[p].cand,
                                           err |-> [kind |-> NoErr, cause |-> NoErr]],
                               ![p].pc = "done"]
  /\ ticks' = [ticks EXCEPT ![p] = @ + 1]
  /\ UNCHANGED unique
  /\ UNCHANGED notShared

\* The insert call of run p, and what the run does with its result.
SharedWrite(p) ==
  /\ run[p].pc = "write"
  /\ LET w == StoreInsert(store, unique, run[p].cand)
     IN  /\ store' = w.store
         /\ IF w.err # NoErr
            THEN run' = [run EXCEPT ![p].writes = Append(@, [rank |-> run[p].cand, err |-> w.err]),
                                    ![p].lastErr = w.err,
                                    ![p].attempt = @ + 1,
                                    ![p].pc = "loop"]
            ELSE run' = [run EXCEPT ![p].writes = Append(@, [rank |-> run[p].cand, err |-> w.err]),
                                    ![p].ret = [rank |-> run[p].cand,
                                                err |-> [kind |-> NoErr, cause |-> NoErr]],
                                    ![p].pc = "done"]
  /\ ticks' = [ticks EXCEPT ![p] = @ + 1]
  /\ UNCHANGED unique
  /\ UNCHANGED notShared

\* Run p has made all its attempts.
SharedGiveUp(p) ==
  /\ run[p].pc = "loop"
  /\ run[p].attempt >= run[p].retries
  /\ run' = [run EXCEPT ![p].ret = [rank |-> ZeroRank,
                                    err |-> [kind |-> ErrMaxRetriesExceeded,
                                             cause |-> run[p].lastErr]],
                        ![p].pc = "done"]
  /\ ticks' = [ticks EXCEPT ![p] = @ + 1]
  /\ UNCHANGED << store, unique >>
  /\ UNCHANGED notShared

StepRead == \E p \in DOMAIN run : SharedRead(p)

StepWrite == \E p \in DOMAIN run : SharedWrite(p)

StepGiveUp == \E p \in DOMAIN run : SharedGiveUp(p)

SharedNext == StepRead \/ StepWrite \/ StepGiveUp

InitShared == ParseIdle /\ RankIdle /\ RebalanceIdle /\ InsertIdle /\ BucketIdle /\ CompareIdle /\ ConvergeIdle /\ ValueIdle /\ PairIdle /\ SharedInit

SpecShared == InitShared /\ [][SharedNext]_vars

Succeeded(p) == run[p].pc = "done" /\ run[p].ret.err.kind = NoErr

\* C13: over a store that rejects a rank string it holds, whatever the
\* interleaving of the runs' callback calls, the store never holds two rows
\* of one rank and no two runs return success with one rank.
C13_NoDuplicateRank ==
  unique =>
    /\ \A i, j \in 1..Len(store) : i # j => String(store[i]) # String(store[j])
    /\ \A p, q \in Runs :
         (p # q /\ Succeeded(p) /\ Succeeded(q)) =>
            String(run[p].ret.rank) # String(run[q].ret.rank)

\* Two runs computed one rank from the same read; the store rejected the
\* second, which read again and succeeded with another rank.
C13_Witness ==
  /\ unique
  /\ Succeeded(1)
  /\ Succeeded(2)
  /\ Len(run[1].writes) = 1
  /\ Len(run[2].writes) = 2
  /\ run[2].writes[1].rank = run[1].ret.rank
  /\ run[2].reads[1].rows = run[1].reads[1].rows

MaxRot == 3

\* Values of the ranks moved between buckets.
MoveValues == { << "0" >>, << "a" >>, << "a", "0" >>, << "z", "z" >> }

BucketInit ==
  /\ bkOps = << >>
  /\ mvOps = << >>
  /\ \E b \in Buckets :
       \E v, w \in MoveValues :
         mvHist = << [a |-> [bucket |-> b, value |-> v],
                      b |-> [bucket |-> b, value |-> w]] >>
  /\ bkHist \in [1..1 -> Buckets]

CallNext ==
  /\ Len(bkOps) < MaxRot
  /\ bkHist' = Append(bkHist, BucketNext(bkHist[Len(bkHist)]))
  /\ bkOps' = Append(bkOps, "Next")
  /\ UNCHANGED << mvHist, mvOps >>
  /\ UNCHANGED notBucket

CallPrev ==
  /\ Len(bkOps) < MaxRot
  /\ bkHist' = Append(bkHist, BucketPrev(bkHist[Len(bkHist)]))
  /\ bkOps' = Append(bkOps, "Prev")
  /\ UNCHANGED << mvHist, mvOps >>
  /\ UNCHANGED notBucket

CallInNextBucket ==
  /\ Len(mvOps) < MaxRot
  /\ LET cur == mvHist[Len(mvHist)]
     IN  mvHist' = Append(mvHist, [a |-> InNextBucket(cur.a), b |-> InNextBucket(cur.b)])
  /\ mvOps' = Append(mvOps, "Next")
  /\ UNCHANGED << bkHist, bkOps >>
  /\ UNCHANGED notBucket

CallInPrevBucket ==
  /\ Len(mvOps) < MaxRot
  /\ LET cur == mvHist[Len(mvHist)]
     IN  mvHist' = Append(mvHist, [a |-> InPrevBucket(cur.a), b |-> InPrevBucket(cur.b)])
  /\ mvOps' = Append(mvOps, "Prev")
  /\ UNCHANGED << bkHist, bkOps >>
  /\ UNCHANGED notBucket

BucketSpecNext == CallNext \/ CallPrev \/ CallInNextBucket \/ CallInPrevBucket

InitBucket == ParseIdle /\ RankIdle /\ RebalanceIdle /\ InsertIdle /\ SharedIdle /\ CompareIdle /\ ConvergeIdle /\ ValueIdle /\ PairIdle /\ BucketInit

SpecBucket == InitBucket /\ [][BucketSpecNext]_vars

\* The rotation the claims state: 0 -> 1 -> 2 -> 0.
Advanced == (0 :> 1) @@ (1 :> 2) @@ (2 :> 0)

\* 0 -> 2 -> 1 -> 0.
Retreated == (0 :> 2) @@ (2 :> 1) @@ (1 :> 0)

\* C15: on the buckets 0, 1, 2, Next maps 0 -> 1 -> 2 -> 0 and Prev maps
\* 0 -> 2 -> 1 -> 0; three Next, three Prev, Next then Prev and Prev then
\* Next all return the bucket they started from, and every result is one of
\* 0, 1, 2.
C15_Rotation ==
  /\ \A i \in 1..Len(bkHist) : bkHist[i] \in { 0, 1, 2 }
  /\ \A i \in 1..Len(bkOps) :
       bkHist[i + 1] = (IF bkOps[i] = "Next" THEN Advanced ELSE Retreated)[bkHist[i]]
  /\ \A i \in 1..(Len(bkOps) - 1) :
       bkOps[i] # bkOps[i + 1] => bkHist[i + 2] = bkHist[i]
  /\ \A i \in 1..(Len(bkOps) - 2) :
       (bkOps[i] = bkOps[i + 1] /\ bkOps[i + 1] = bkOps[i + 2]) => bkHist[i + 3] = bkHist[i]

\* Three Prev calls from bucket 0: 0, 2, 1, 0.
C15_Witness ==
  /\ bkOps = << "Prev", "Prev", "Prev" >>
  /\ bkHist = << 0, 2, 1, 0 >>

\* C16: InNextBucket and InPrevBucket keep the value string and advance /
\* retreat the bucket by one step; moving two ranks of one bucket with the
\* same operation keeps their CompareTo result, and InPrevBucket undoes
\* InNextBucket.
C16_MoveKeepsValue ==
  /\ \A i \in 1..Len(mvOps) :
       LET rot == IF mvOps[i] = "Next" THEN Advanced ELSE Retreated
       IN  /\ mvHist[i + 1].a.value = mvHist[i].a.value
           /\ mvHist[i + 1].b.value = mvHist[i].b.value
           /\ mvHist[i + 1].a.bucket = rot[mvHist[i].a.bucket]
           /\ mvHist[i + 1].b.bucket = rot[mvHist[i].b.bucket]
           /\ CompareTo(mvHist[i + 1].a, mvHist[i + 1].b) = CompareTo(mvHist[i].a, mvHist[i].b)
  /\ \A i \in 1..(Len(mvOps) - 1) :
       (mvOps[i] = "Next" /\ mvOps[i + 1] = "Prev") => mvHist[i + 2] = mvHist[i]

\* Two ranks of bucket 2 that compare unequal, moved to bucket 0 and back.
C16_Witness ==
  /\ Len(mvOps) >= 2
  /\ mvOps[1] = "Next"
  /\ mvOps[2] = "Prev"
  /\ mvHist[1].a.bucket = Bucket2
  /\ mvHist[2].a.bucket = Bucket0
  /\ CompareTo(mvHist[1].a, mvHist[1].b) < 0
  /\ mvHist[3] = mvHist[1]

\* ------------------------------------------------------------------------
\* CompareTo
\* ------------------------------------------------------------------------

MaxCmpBucket == 1

\* Values compared: with and without trailing minimum symbols, digits next
\* to letters, of one to six symbols.
CompareValues ==
  { << "0" >>, << "0", "0" >>, << "9" >>, << "9", "z" >>, << "a" >>, << "a", "0" >>,
    << "a", "a", "a" >>, << "a", "a", "a", "0", "0", "0" >>, << "a", "a", "b" >>,
    << "a", "a", "a", "0", "0", "1" >>, << "z" >> }

CompareRanks == [bucket : 0..MaxCmpBucket, value : CompareValues]

CompareInit ==
  /\ cmpRes = << >>
  /\ cmpArgs \in [1..3 -> CompareRanks]

\* a.CompareTo(b), b.CompareTo(a), b.CompareTo(c), a.CompareTo(c)
CallCompareTo ==
  /\ cmpRes = << >>
  /\ cmpRes' = [ab |-> CompareTo(cmpArgs[1], cmpArgs[2]),
                ba |-> CompareTo(cmpArgs[2], cmpArgs[1]),
                bc |-> CompareTo(cmpArgs[2], cmpArgs[3]),
                ac |-> CompareTo(cmpArgs[1], cmpArgs[3])]
  /\ UNCHANGED cmpArgs
  /\ UNCHANGED notCompare

CompareNext == CallCompareTo

InitCompare == ParseIdle /\ RankIdle /\ RebalanceIdle /\ InsertIdle /\ SharedIdle /\ BucketIdle /\ ConvergeIdle /\ ValueIdle /\ PairIdle /\ CompareInit

SpecCompare == InitCompare /\ [][CompareNext]_vars

\* The base-36 integer a value encodes once it is right-padded with the
\* minimum symbol to n symbols.
PaddedInt(v, n) == strToBigInt(v \o [i \in 1..(n - Len(v)) |-> "0"])

\* The order the claim states: the bucket first, then the padded integers.
Order(x, y) ==
  LET n == IF Len(x.value) > Len(y.value) THEN Len(x.value) ELSE Len(y.value)
  IN  IF x.bucket < y.bucket THEN -1
      ELSE IF x.bucket > y.bucket THEN 1
      ELSE BigCmp(PaddedInt(x.value, n), PaddedInt(y.value, n))

\* v is w followed by minimum symbols only.
ExtendsByZeros(v, w) ==
  /\ Len(v) >= Len(w)
  /\ SubSeq(v, 1, Len(w)) = w
  /\ \A i \in (Len(w) + 1)..Len(v) : v[i] = "0"

\* C17: CompareTo compares the bucket first and then the values as the
\* base-36 integers they encode after right-padding the shorter with '0';
\* it is antisymmetric and transitive, every two ranks are comparable, and
\* values that differ only by trailing '0' symbols compare equal.
C17_TotalPreorder ==
  cmpRes # << >> =>
    /\ cmpRes.ab \in { -1, 0, 1 }
    /\ cmpRes.ab = Order(cmpArgs[1], cmpArgs[2])
    /\ cmpRes.ab = 0 - cmpRes.ba
    /\ (cmpRes.ab <= 0 /\ cmpRes.bc <= 0) => cmpRes.ac <= 0
    /\ (cmpRes.ab < 0 /\ cmpRes.bc <= 0) => cmpRes.ac < 0
    /\ (cmpRes.ab <= 0 /\ cmpRes.bc < 0) => cmpRes.ac < 0
    /\ (/\ cmpArgs[1].bucket = cmpArgs[2].bucket
        /\ ExtendsByZeros(cmpArgs[2].value, cmpArgs[1].value)) => cmpRes.ab = 0

\* "aaa" and "aaa000" compare equal, and both are below "aaa001".
C17_Witness ==
  /\ cmpRes # << >>
  /\ cmpArgs[1] = [bucket |-> 0, value |-> << "a", "a", "a" >>]
  /\ cmpArgs[2] = [bucket |-> 0, value |-> << "a", "a", "a", "0", "0", "0" >>]
  /\ cmpArgs[3] = [bucket |-> 0, value |-> << "a", "a", "a", "0", "0", "1" >>]
  /\ cmpRes.ab = 0
  /\ cmpRes.bc = -1
  /\ cmpRes.ac = -1

\* ------------------------------------------------------------------------
\* Errors of Between
\* ------------------------------------------------------------------------

\* The two values are the same once the shorter is right-padded with '0'.
EqualPadded(v, w) == ExtendsByZeros(v, w) \/ ExtendsByZeros(w, v)

\* C18: Between fails with CrossBucket whenever the buckets differ, whatever
\* the values; for equal buckets it fails with EqualValues, never with
\* Exhausted, whenever the values are equal under padding, whatever their
\* lengths; in both cases it returns no rank.
C18_BetweenErrors ==
  op = "Between" =>
    /\ ra.bucket # rb.bucket =>
         (res.err = ErrCrossBucket /\ res.rank = ZeroRank)
    /\ (ra.bucket = rb.bucket /\ EqualPadded(ra.value, rb.value)) =>
         (res.err = ErrEqualValues /\ res.rank = ZeroRank)

\* Equal values of MaxLength - 1 and MaxLength symbols.
C18_Witness ==
  /\ op = "Between"
  /\ ra.bucket = rb.bucket
  /\ Len(ra.value) = MaxLength
  /\ Len(rb.value) = MaxLength - 1
  /\ ra.value # rb.value
  /\ res.err = ErrEqualValues

\* ------------------------------------------------------------------------
\* Repeated Between on two adjacent values
\* ------------------------------------------------------------------------

\* Lower values the loop starts from; the upper one is the next value of
\* the same length.
ConvergeStarts ==
  { << "a" >>, << "0" >>, << "y" >>, << "a", "z" >>, << "0", "0" >>,
    Repeat(AlphaMin, MaxLength - 1), Repeat(AlphaMax, MaxLength - 1) \o << "y" >> }

ConvergeInit ==
  /\ cvPrev = Nil
  /\ cvSteps = 0
  /\ cvErr = "none"
  /\ \E v \in ConvergeStarts :
       /\ cvA = [bucket |-> Bucket1, value |-> v]
       /\ cvB = [bucket |-> Bucket1, value |-> Increment(v)]
       /\ cvFrom = Len(v)

\* a, err = Between(a, b), until it fails.
StepBetween ==
  /\ cvErr \in { "none", NoErr }
  /\ Len(cvA.value) <= MaxLength
  /\ LET r == Between(cvA, cvB)
     IN  /\ cvErr' = r.err
         /\ cvA' = IF r.err = NoErr THEN r.rank ELSE cvA
         /\ cvPrev' = IF r.err = NoErr THEN cvA ELSE cvPrev
  /\ cvSteps' = cvSteps + 1
  /\ UNCHANGED << cvB, cvFrom >>
  /\ UNCHANGED notConverge

ConvergeNext == StepBetween

InitConverge == ParseIdle /\ RankIdle /\ RebalanceIdle /\ InsertIdle /\ SharedIdle /\ BucketIdle /\ CompareIdle /\ ValueIdle /\ PairIdle /\ ConvergeInit

SpecConverge == InitConverge /\ [][ConvergeNext]_vars

\* A call of Between by the loop: what StepBetween does to the count of
\* calls, under the condition of StepBetween.
Called ==
  /\ cvErr \in { "none", NoErr }
  /\ Len(cvA.value) <= MaxLength
  /\ cvSteps' = cvSteps + 1

\* The loop goes on as long as Between succeeds: a step of StepBetween is
\* a step of Called that changes cvSteps, and is enabled when Called is.
FairConverge == SpecConverge /\ WF_cvSteps(Called)

\* What every successful step leaves: the result strictly between the
\* lower rank it was called on and the upper rank, not shorter than that
\* lower rank, and of MaxLength symbols at most.
StepOrdered ==
  (cvPrev # Nil) =>
    /\ CompareTo(cvPrev, cvA) < 0
    /\ CompareTo(cvA, cvB) < 0
    /\ Len(cvA.value) >= Len(cvPrev.value)
    /\ Len(cvA.value) <= MaxLength
    /\ cvErr \in { NoErr, ErrRankExhausted }

\* C19: from two adjacent values a < b of equal length in one bucket,
\* repeating a := Between(a, b), every successful step returns a value
\* strictly between a and b, the length of the value never decreases, no
\* value is longer than MaxLength, and eventually Between returns Exhausted.
C19_Convergence == [] StepOrdered /\ <>(cvErr = ErrRankExhausted)

\* Started from values of one symbol, the loop is exhausted at MaxLength.
C19_Witness ==
  /\ cvErr = ErrRankExhausted
  /\ cvFrom = 1
  /\ Len(cvA.value) = MaxLength
  /\ Len(cvB.value) = 1
  /\ Len(cvPrev.value) = MaxLength

\* ------------------------------------------------------------------------
\* Length of the values
\* ------------------------------------------------------------------------

\* C20: a rank obtained by GenNext, GenPrev, Between or GenBetween, alone
\* or in sequence, from ranks whose values have 1..MaxLength symbols has a
\* value of 1..MaxLength symbols.
C20_LengthBound ==
  LET first == IF hist = << >> THEN ra ELSE hist[1].rank
      InBound(r) == r = Nil \/ (Len(r.value) >= 1 /\ Len(r.value) <= MaxLength)
  IN  (/\ op \in { "GenNext", "GenPrev", "Between", "GenBetween" }
       /\ res.err = NoErr
       /\ InBound(first)
       /\ InBound(rb)) =>
         (Len(res.rank.value) >= 1 /\ Len(res.rank.value) <= MaxLength)

\* ------------------------------------------------------------------------
\* When Between is exhausted
\* ------------------------------------------------------------------------

\* The longer of the two lengths: the length both values have once padded.
PaddedLen(v, w) == IF Len(v) > Len(w) THEN Len(v) ELSE Len(w)

\* The floor mean of the two padded integers is the lower of them.
MeanIsLower(v, w) ==
  LET x  == PaddedInt(v, PaddedLen(v, w))
      y  == PaddedInt(w, PaddedLen(v, w))
      lo == IF BigCmp(x, y) < 0 THEN x ELSE y
  IN  BigDiv(BigAdd(x, y), BigFromInt(2)) = lo

\* C21: for unequal values of one bucket with common padded length L,
\* Between returns Exhausted if and only if the floor mean of the two padded
\* integers is the lower one and L + 1 > MaxLength; in every other case it
\* succeeds, and its result has L + 1 symbols when the floor mean is the
\* lower one and L < MaxLength.
C21_ExhaustedIff ==
  (/\ op = "Between"
   /\ ra.bucket = rb.bucket
   /\ ~EqualPadded(ra.value, rb.value)) =>
     LET L        == PaddedLen(ra.value, rb.value)
         adjacent == MeanIsLower(ra.value, rb.value)
     IN  /\ (res.err = ErrRankExhausted) <=> (adjacent /\ L + 1 > MaxLength)
         /\ res.err \in { ErrRankExhausted, NoErr }
         /\ (adjacent /\ L < MaxLength) =>
              (res.err = NoErr /\ Len(res.rank.value) = L + 1)

\* Between is exhausted on a value of MaxLength symbols and a shorter one
\* that are adjacent once padded.
C21_Witness ==
  /\ op = "Between"
  /\ ra.bucket = rb.bucket
  /\ Len(ra.value) = MaxLength
  /\ Len(rb.value) < MaxLength
  /\ MeanIsLower(ra.value, rb.value)
  /\ ~EqualPadded(ra.value, rb.value)
  /\ res.err = ErrRankExhausted

\* ------------------------------------------------------------------------
\* The values Rebalance returns
\* ------------------------------------------------------------------------

\* The length the step is computed at: DefaultLength when the step at
\* DefaultLength, floor((36^DefaultLength - 1) / (n + 1)), is positive, and
\* DefaultLength + 2 otherwise.
ChosenLength(n) ==
  IF BigCmp(BigAdd(n, BigFromInt(1)), SpaceSize) < 0
  THEN DefaultLength
  ELSE DefaultLength + 2

\* floor((36^length - 1) / (n + 1)), the all-minimum value being zero.
StepAt(n, length) ==
  BigDiv(strToBigInt([i \in 1..length |-> "z"]), BigAdd(n, BigFromInt(1)))

\* C22: every value Rebalance returns for n ranks is a digit string of the
\* chosen length (DefaultLength when the step at DefaultLength is positive,
\* DefaultLength + 2 when it is zero), and the i-th (0-indexed) encodes
\* min + step * (i + 1) with the step of that length.
C22_FixedLength ==
  rbCalled =>
    LET n    == rbIn.len
        L    == ChosenLength(n)
        step == StepAt(n, L)
    IN  \A k \in 1..Len(rbOut) :
          /\ Len(rbOut[k].value) = L
          /\ strToBigInt(rbOut[k].value) = BigMul(step, BigAdd(rbFrom, BigFromInt(k)))

\* C23: for every n >= 1 the step Rebalance uses is greater than zero
\* after the fallback to the longer length, no value it returns encodes the
\* all-minimum or the all-maximum integer of the chosen length, and for
\* n = 1 the single value is min + step.
C23_PositiveStep ==
  (rbCalled /\ BigSign(rbIn.len) > 0) =>
    LET n == rbIn.len
        L == ChosenLength(n)
    IN  /\ BigSign(RebalanceStep(n).step) > 0
        /\ \A k \in 1..Len(rbOut) :
             /\ strToBigInt(rbOut[k].value) # BigZero
             /\ strToBigInt(rbOut[k].value) # strToBigInt([i \in 1..L |-> "z"])
        /\ n = BigFromInt(1) =>
             /\ Len(rbOut) = 1
             /\ strToBigInt(rbOut[1].value) = StepAt(n, L)

\* ------------------------------------------------------------------------
\* Increment and Decrement
\* ------------------------------------------------------------------------

MaxValueLen == 3

\* Symbols of the argument values: the two lowest and the two highest.
StepChars == { "0", "1", "y", "z" }

StepValues == UNION { [1..n -> StepChars] : n \in 1..MaxValueLen } \cup LongValues

ValueInit ==
  /\ ivArg \in StepValues
  /\ ivOp = "none"
  /\ ivRes = ZeroValue

CallIncrement ==
  /\ ivOp = "none"
  /\ ivRes' = Increment(ivArg)
  /\ ivOp' = "Increment"
  /\ UNCHANGED ivArg
  /\ UNCHANGED notValue

CallDecrement ==
  /\ ivOp = "none"
  /\ ivRes' = Decrement(ivArg)
  /\ ivOp' = "Decrement"
  /\ UNCHANGED ivArg
  /\ UNCHANGED notValue

ValueNext == CallIncrement \/ CallDecrement

InitValue == ParseIdle /\ RankIdle /\ RebalanceIdle /\ InsertIdle /\ SharedIdle /\ BucketIdle /\ CompareIdle /\ ConvergeIdle /\ PairIdle /\ ValueInit

SpecValue == InitValue /\ [][ValueNext]_vars

\* C24: Increment and Decrement return a value of the same length as the
\* receiver that encodes the receiver's base-36 integer plus one or minus
\* one; Decrement of the all-minimum value returns the all-minimum value;
\* this includes Increment of the all-maximum value.
C24_SameLength ==
  /\ ivOp = "Increment" =>
       /\ Len(ivRes) = Len(ivArg)
       /\ strToBigInt(ivRes) = BigAdd(strToBigInt(ivArg), BigFromInt(1))
  /\ ivOp = "Decrement" =>
       /\ Len(ivRes) = Len(ivArg)
       /\ AllMin(ivArg) => ivRes = ivArg
       /\ ~AllMin(ivArg) =>
            BigAdd(strToBigInt(ivRes), BigFromInt(1)) = strToBigInt(ivArg)

\* ------------------------------------------------------------------------
\* The order of the callbacks of one InsertBetween run
\* ------------------------------------------------------------------------

\* C25: in every InsertBetween run the callbacks alternate read, write,
\* read, write: the number of neighbor reads minus the number of write
\* attempts is 0 or 1 at every point, the i-th write attempt follows the
\* i-th read and is given GenBetween of the neighbors that read returned,
\* and a read after the first is made only after the write attempt before
\* it failed.
C25_ReadBeforeWrite ==
  /\ Len(reads) - Len(writes) \in { 0, 1 }
  /\ \A i \in 1..Len(writes) :
       /\ reads[i].err = NoErr
       /\ GenBetween(reads[i].prev, reads[i].next) = [rank |-> writes[i].rank, err |-> NoErr]
  /\ \A i \in 2..Len(reads) : writes[i - 1].err # NoErr

\* A run whose first write failed, whose second read returned other
\* neighbors than the first, and whose second write was given another rank
\* and succeeded.
C25_Witness ==
  /\ pc = "done"
  /\ Len(reads) = 2
  /\ Len(writes) = 2
  /\ reads[1] # reads[2]
  /\ writes[1].rank # writes[2].rank
  /\ writes[1].err # NoErr
  /\ ret = [rank |-> writes[2].rank, err |-> [kind |-> NoErr, cause |-> NoErr]]

\* ------------------------------------------------------------------------
\* The length of what Between returns
\* ------------------------------------------------------------------------

\* The shorter of the two lengths.
ShorterLen(v, w) == IF Len(v) < Len(w) THEN Len(v) ELSE Len(w)

\* v followed by minimum symbols up to n symbols.
ZeroExtended(v, n) == v \o [i \in 1..(n - Len(v)) |-> "0"]

\* C26: a successful Between(a, b) returns a value of at least
\* min(len(a), len(b)) and at most max(len(a), len(b)) + 1 symbols, which
\* ends in '0' only if its length is min(len(a), len(b)); the result
\* compares to a and to b as it does with the trimmed '0' symbols put back.
C26_TrimmedLength ==
  (op = "Between" /\ res.err = NoErr) =>
    LET v    == res.rank.value
        lo   == ShorterLen(ra.value, rb.value)
        hi   == PaddedLen(ra.value, rb.value)
        full == ZeroExtended(v, hi + 1)
    IN  /\ Len(v) >= lo
        /\ Len(v) <= hi + 1
        /\ (Len(v) > 0 /\ v[Len(v)] = "0") => Len(v) = lo
        /\ ValueCompareTo(v, ra.value) = ValueCompareTo(full, ra.value)
        /\ ValueCompareTo(v, rb.value) = ValueCompareTo(full, rb.value)

\* Between("1", "z0") is "i": the midpoint "i0" trimmed to the length of
\* the shorter operand.
C26_Witness ==
  /\ op = "Between"
  /\ res.err = NoErr
  /\ Len(ra.value) = 1
  /\ Len(rb.value) = 2
  /\ ~MeanIsLower(ra.value, rb.value)
  /\ Len(res.rank.value) = 1
  /\ res.rank.value # ra.value

\* ------------------------------------------------------------------------
\* CompareTo and the order of the wire strings
\* ------------------------------------------------------------------------

\* The order a store gives two ranks with ORDER BY on the string column.
PlainOrder(x, y) == StrCmp(String(x), String(y))

\* C27: a.CompareTo(b) < 0 implies a.String() < b.String() as plain
\* strings (and so for > 0); the two orders differ only where CompareTo
\* returns 0 for two distinct strings, one value being the other followed
\* by '0' symbols, and such ranks have different strings, so a uniqueness
\* constraint on the string does not treat them as duplicates.
C27_ByteOrder ==
  cmpRes # << >> =>
    LET a == cmpArgs[1]
        b == cmpArgs[2]
    IN  /\ cmpRes.ab < 0 => PlainOrder(a, b) < 0
        /\ cmpRes.ab > 0 => PlainOrder(a, b) > 0
        /\ PlainOrder(a, b) # cmpRes.ab =>
             /\ cmpRes.ab = 0
             /\ a.bucket = b.bucket
             /\ a.value # b.value
             /\ EqualPadded(a.value, b.value)
        /\ (cmpRes.ab = 0 /\ a # b) => String(a) # String(b)

\* "0|a" and "0|a0" compare equal and are two strings, "0|a" the lower;
\* both are below "0|z" in both orders.
C27_Witness ==
  /\ cmpRes # << >>
  /\ cmpArgs[1] = [bucket |-> 0, value |-> << "a" >>]
  /\ cmpArgs[2] = [bucket |-> 0, value |-> << "a", "0" >>]
  /\ cmpArgs[3] = [bucket |-> 0, value |-> << "z" >>]
  /\ cmpRes.ab = 0
  /\ PlainOrder(cmpArgs[1], cmpArgs[2]) = -1
  /\ cmpRes.bc = -1
  /\ PlainOrder(cmpArgs[2], cmpArgs[3]) = -1

\* ------------------------------------------------------------------------
\* Two calls of Rebalance
\* ------------------------------------------------------------------------

MaxPairLen == 2

\* Input slices of every order, with duplicates and ranks of two buckets.
AnyInputs(n) == [1..n -> RankPool]

PairInit ==
  /\ rpBucket \in Buckets
  /\ rpOut = << >>
  /\ rpLeft = << >>
  /\ \E n \in 0..MaxPairLen : rpIn \in [1..2 -> AnyInputs(n)]

\* The slice a call of Rebalance leaves behind: result is a new slice and
\* ranks is never assigned to.
RanksAfter(ranks, bucket) == ranks

\* Rebalance(rpIn[1], rpBucket) and Rebalance(rpIn[2], rpBucket).
CallRebalanceTwice ==
  /\ rpIn # << >>
  /\ rpOut = << >>
  /\ rpOut' = << Rebalance(rpIn[1], rpBucket), Rebalance(rpIn[2], rpBucket) >>
  /\ rpLeft' = << RanksAfter(rpIn[1], rpBucket), RanksAfter(rpIn[2], rpBucket) >>
  /\ UNCHANGED << rpIn, rpBucket >>
  /\ UNCHANGED notPair

PairNext == CallRebalanceTwice

InitPair == ParseIdle /\ RankIdle /\ RebalanceIdle /\ InsertIdle /\ SharedIdle /\ BucketIdle /\ CompareIdle /\ ConvergeIdle /\ ValueIdle /\ PairInit

SpecPair == InitPair /\ [][PairNext]_vars

MaxAppendRetries == 3

\* The two runs.
AppendRuns == { 1, 2 }

\* The stores the runs start on: empty, short ranks with one that is another
\* followed by a '0', and a greatest rank one symbol below the length
\* limit and at it.
AppendStores ==
  { << >>,
    << Initial >>,
    << GenNext(Initial), Initial, [bucket |-> Bucket0, value |-> MidValue(DefaultLength) \o << "0" >>] >>,
    << Initial, [bucket |-> Bucket0, value |-> MaxValue(MaxLength - 1)] >>,
    << [bucket |-> Bucket0, value |-> MaxValue(MaxLength)] >> }

AppendInit ==
  /\ store \in AppendStores
  /\ unique \in BOOLEAN
  /\ ticks = [p \in AppendRuns |-> 0]
  /\ run \in [AppendRuns ->
       { [pc |-> "loop", retries |-> coerce(m), attempt |-> 0,
          pos |-> [after |-> Nil, next0 |-> Nil, byId |-> FALSE, tail |-> TRUE],
          reads |-> << >>, writes |-> << >>, cand |-> ZeroRank,
          lastErr |-> NoErr, ret |-> NoReturn] :
           m \in 1..MaxAppendRetries }]

InitAppend == ParseIdle /\ RankIdle /\ RebalanceIdle /\ InsertIdle /\ BucketIdle /\ CompareIdle /\ ConvergeIdle /\ ValueIdle /\ PairIdle /\ AppendInit

SpecAppend == InitAppend /\ [][SharedNext]_vars

\* Run p takes its next step: a step of SharedRead(p), SharedWrite(p) or
\* SharedGiveUp(p), one of which is enabled until the run has returned.
RunStep(p) ==
  /\ run[p].pc # "done"
  /\ ticks' = [ticks EXCEPT ![p] = @ + 1]

\* Every run that has not returned takes its next step in the end.
FairAppend == SpecAppend /\ \A p \in AppendRuns : WF_ticks(RunStep(p))

\* The store rejects duplicates, both runs have maxRetries >= 2, and every
\* value in the store has fewer than MaxLength symbols.
AppendPre ==
  /\ unique
  /\ \A p \in DOMAIN run : run[p].retries >= 2
  /\ \A i \in 1..Len(store) : Len(store[i].value) < MaxLength

BothSucceeded == \A p \in DOMAIN run : Succeeded(p)

\* No run has ended in failure, no two have returned one rank, and the row
\* of a run that succeeded is above every row that was in the store before
\* it.
AppendSafe ==
  /\ \A p \in DOMAIN run : run[p].pc = "done" => Succeeded(p)
  /\ \A p, q \in DOMAIN run :
       (p # q /\ Succeeded(p) /\ Succeeded(q)) =>
          String(run[p].ret.rank) # String(run[q].ret.rank)
  /\ \A p \in DOMAIN run :
       Succeeded(p) =>
          \E k \in 1..Len(store) :
             /\ store[k] = run[p].ret.rank
             /\ \A i \in 1..(k - 1) : CompareTo(store[i], store[k]) < 0

\* C29: two InsertBetween runs with maxRetries >= 2 each, interleaved in
\* any way over one store that rejects duplicate rank strings and holds
\* values below MaxLength symbols, each reading the store's greatest rank
\* as prev and no next, both return success in the end: neither ends in
\* MaxRetriesExceeded, the two ranks are distinct, and each is strictly
\* greater than every rank that was in the store when it was written.
C29_BothAppend == AppendPre => (<>BothSucceeded /\ []AppendSafe)

\* Both runs read the same greatest rank before either wrote; the second
\* write was rejected, and that run read again and appended above the
\* first one's rank.
C29_Witness ==
  /\ unique
  /\ BothSucceeded
  /\ run[1].retries = 2
  /\ run[2].retries = 2
  /\ Len(run[1].writes) = 1
  /\ Len(run[2].writes) = 2
  /\ run[1].reads[1].prev = run[2].reads[1].prev
  /\ run[2].reads[2].prev = run[1].ret.rank
  /\ CompareTo(run[2].ret.rank, run[1].ret.rank) > 0
  /\ Len(run[1].ret.rank.value) = MaxLength

\* ------------------------------------------------------------------------
\* A run whose reads return the same neighbors every time
\* ------------------------------------------------------------------------

\* Every read of run p returned the pair its first read returned.
SameReads(p) ==
  \A i \in 1..Len(run[p].reads) :
    /\ run[p].reads[i].prev = run[p].reads[1].prev
    /\ run[p].reads[i].next = run[p].reads[1].next

\* The store rejected a write of run p because it holds the rank.
RejectedOnce(p) ==
  \E i \in 1..Len(run[p].writes) : run[p].writes[i].err = ErrDuplicate

\* C30: in a run whose neighbor reads return the same (prev, next) pair on
\* every attempt, every write attempt is given the same rank; once the
\* store has rejected that rank because it holds it, it rejects every later
\* attempt, and the run ends in MaxRetriesExceeded after maxRetries
\* attempts.
C30_SameCandidate ==
  \A p \in DOMAIN run :
    SameReads(p) =>
      /\ \A i, j \in 1..Len(run[p].writes) :
           run[p].writes[i].rank = run[p].writes[j].rank
      /\ \A i, j \in 1..Len(run[p].writes) :
           (i < j /\ run[p].writes[i].err = ErrDuplicate) =>
              run[p].writes[j].err = ErrDuplicate
      /\ (run[p].pc = "done" /\ RejectedOnce(p)) =>
           /\ run[p].ret.rank = ZeroRank
           /\ run[p].ret.err.kind = ErrMaxRetriesExceeded
           /\ run[p].ret.err.cause = ErrDuplicate
           /\ Len(run[p].writes) = run[p].retries
           /\ Len(run[p].reads) = run[p].retries

\* Two runs insert into the gap between two rows they read by id; the first
\* succeeds, the second is given the same rank on both of its attempts, is
\* rejected twice and gives up.
C30_Witness ==
  /\ unique
  /\ Succeeded(1)
  /\ run[2].pos.byId
  /\ run[2].pos.after # Nil
  /\ run[2].pos.next0 # Nil
  /\ run[2].retries = SharedRetries
  /\ run[2].pc = "done"
  /\ SameReads(2)
  /\ Len(run[2].writes) = SharedRetries
  /\ \A i \in 1..Len(run[2].writes) :
       /\ run[2].writes[i].rank = run[1].ret.rank
       /\ run[2].writes[i].err = ErrDuplicate
  /\ run[2].ret.err.kind = ErrMaxRetriesExceeded

====
